---- MODULE Spec2Model ----
(***************************************************************************)
(* napari-sperm-measure: the measurement core (measurement.py) and the     *)
(* widget that drives it (widget.py), as state machines.                   *)
(*                                                                         *)
(* An array is a sequence of rows, image[x][y], indexed from 1 where the   *)
(* Python code indexes from 0: Python row r is row r + 1 here.  A pixel    *)
(* holds the uint8 value the code stores in it (0/255, or 0/1 inside the   *)
(* thinning routine).                                                      *)
(***************************************************************************)
EXTENDS Integers, Sequences, FiniteSets, TLC

(***************************************************************************)
(* Bounds of the model.                                                    *)
(***************************************************************************)
\* Dimensions of the masks handed to morphological_thinning / measure_cell.
ThinRows == 4
ThinCols == 4
\* Largest number of foreground pixels of a mask handed to measure_cell.
ThinMaxFg == 4
\* Dimensions of the masks thinned with any number of foreground pixels, so
\* that every way of lying along the array's border occurs.
BorderRows == 3
BorderCols == 4
\* The all-foreground rectangles thinned as a concrete scenario: heights up to
\* RectHeight, widths RectWidth - 1 and RectWidth, with 0..RectMargin rows and
\* columns of background around them, and how far below its width the pixel
\* count of the line may fall to count as "about" the width.
RectHeight == 5
RectWidth == 100
RectMargin == 1
RectSlack == 10

\* Dimensions of the preprocessed mask the tracing clicks work on.
Rows == 3
Cols == 3
\* Largest number of foreground pixels of that preprocessed mask.
MaxFg == 3
\* Largest eraser radius the size slider is moved to (the slider allows 1..50).
MaxRadius == 2
\* How far outside the image, in pixels, a click may land.
Margin == 1

\* Dimensions of the photographs the whole widget is exercised on (wider than
\* 3 pixels, as every photograph is), and the most foreground pixels their
\* preprocessing yields.
ImgRows == 1
ImgCols == 4
ImgMaxFg == 1
\* Most registrations of the click handler (one per start of tracing).
MaxCallbacks == 2
\* Most measurement timers running at once.
MaxTimers == 1
\* Most measurement timers running at once where overlapping requests are
\* looked at.
MaxOverlap == 2
\* Dimensions and most foreground pixels of the thresholded masks the closing
\* loop is run on, the largest kernel size (odd sizes from 3), and the most
\* iterations.
CloseRows == 3
CloseCols == 4
CloseMaxFg == 2
CloseMaxKernel == 5
CloseMaxIterations == 3
\* Images in the folder the exports are made from.
ExportImages == 2
\* How far from either end of its range a parameter slider is moved.
SliderSpan == 1

(***************************************************************************)
(* Program constants.                                                      *)
(***************************************************************************)
\* measurement.py:156  length = count / 3.06, as the fraction 306/100.
CalibrationNum == 306
CalibrationDen == 100
\* widget.py:30  self.erase_radius = 10
DefaultEraseRadius == 10
\* widget.py:236-238, 246-248, 255-257, 265-267: the parameter sliders
BlockSizeMin == 3
BlockSizeMax == 99
BlockSizeInit == 51
CValueMin == -20
CValueMax == 20
CValueInit == -3
KernelMin == 3
KernelMax == 51
KernelInit == 3
IterMin == 1
IterMax == 20
IterInit == 1
\* widget.py:780-782: the progress bar advances by 20 up to 100
ProgressStep == 20
ProgressFull == 100
\* measurement.py:51  cv2.threshold(image, 127, 255, cv2.THRESH_BINARY)
ThresholdLevel == 127
\* measurement.py:66  new_val = 128
NewVal == 128

VARIABLES
    \* ---- measure_cell / morphological_thinning (measurement.py:78-157)
    cell_mask,      \* the argument of measure_cell
    image,          \* morphological_thinning's working array (values 0/1)
    prev,           \* the loop's previous-pass array
    thin_pc,        \* position inside measure_cell
    skeleton,       \* morphological_thinning's return value (values 0/255)
    length,         \* measure_cell's length, a fraction [num, den]
    passes,         \* history: full passes executed so far
    deleted,        \* history: pixels deleted by the latest full pass
    zero_pass       \* history: index of the first pass that deleted nothing, or 0

thinVars == <<cell_mask, image, prev, thin_pc, skeleton, length, passes, deleted, zero_pass>>

VARIABLES
    \* ---- SpermMeasureWidget (widget.py) and the napari viewer it drives
    layer_preprocessed,      \* viewer.layers['Preprocessed Image'].data, or NoArray
    layer_cell_mask,         \* viewer.layers['Cell Mask'].data, or NoArray
    accumulated_mask,        \* self.accumulated_mask, or NoArray for None
    point_selection_enabled, \* self.point_selection_enabled
    is_erase_mode,           \* self.is_erase_mode
    erase_radius,            \* self.erase_radius
    erase_btn_enabled,       \* self.erase_btn.isEnabled()
    mouse_drag_callbacks,    \* registrations of _on_click in viewer.mouse_drag_callbacks
    raised,                  \* the exception the latest handler ended with, or "none"
    stdout,                  \* what the latest handler printed, or ""
    covered,                 \* history: the step was a grow of a region the mask already held
    regrown                  \* history: the step was a grow of a region the mask held in part

traceVars == <<layer_preprocessed, layer_cell_mask, accumulated_mask,
               point_selection_enabled, is_erase_mode, erase_radius,
               erase_btn_enabled, mouse_drag_callbacks, raised, stdout, covered, regrown>>

VARIABLES
    layer_image,             \* viewer.layers[0].data: the loaded photograph
    layer_skeleton,          \* viewer.layers['Cell Skeleton'].data, or NoArray
    is_preprocessing,        \* self.is_preprocessing
    block_size_slider,       \* self.block_size_slider.value()
    c_value_slider,          \* self.c_value_slider.value()
    kernel_slider,           \* self.kernel_slider.value()
    iter_slider,             \* self.iter_slider.value()
    invocations,             \* history: the initial_preprocessing calls of the latest handler
    timers,                  \* running QTimers started by _on_measure_click
    progress_value,          \* self.progress_bar.value()
    result_length            \* the length shown by self.result_label, or NoLength

widgetVars == <<layer_image, layer_skeleton, is_preprocessing, block_size_slider,
                c_value_slider, kernel_slider, iter_slider, invocations, timers,
                progress_value, result_length>>

VARIABLES
    preprocessing            \* the locals of a call of initial_preprocessing at its
                             \* closing loop: a record of pc ("idle", "input", "loop",
                             \* "returned"), adaptive_thresh, adaptive_thresh_copy,
                             \* closing (<<>> before the first iteration), kernel_size,
                             \* iterations and i, the iterations done so far

closeVars == <<preprocessing>>

VARIABLES
    measurements_file,       \* measurement_exports/measurements.json: whether it exists
                             \* and the list it holds
    image_spin,              \* self.image_spin.value(), the index of the image shown
    export_status,           \* what the latest _on_export_click passed to _update_status
    updated                  \* history: _on_export_click's local flag of the latest export

exportVars == <<measurements_file, image_spin, export_status, updated>>

vars == <<thinVars, traceVars, widgetVars, closeVars, exportVars>>

(***************************************************************************)
(* Arrays.                                                                 *)
(***************************************************************************)
\* np.zeros((rows, cols), dtype=np.uint8)
zeros(rows, cols) == [x \in 1..rows |-> [y \in 1..cols |-> 0]]

\* image.shape of a 2D array
shape(a) == <<Len(a), IF Len(a) = 0 THEN 0 ELSE Len(a[1])>>

\* The index set of a 2D array.
Pixels(a) == (1..shape(a)[1]) \X (1..shape(a)[2])

\* np.count_nonzero(a)
count_nonzero(a) == Cardinality({p \in Pixels(a) : a[p[1]][p[2]] # 0})

\* a // k and a * k, element-wise
floordiv(a, k) == [x \in 1..Len(a) |-> [y \in 1..Len(a[x]) |-> a[x][y] \div k]]
scale(a, k) == [x \in 1..Len(a) |-> [y \in 1..Len(a[x]) |-> a[x][y] * k]]

(***************************************************************************)
(* morphological_thinning (measurement.py:78-151).                         *)
(***************************************************************************)
\* neighbors(x, y, image): P2..P9, clockwise from north.
neighbors(x, y, img) ==
    << img[x-1][y], img[x-1][y+1], img[x][y+1], img[x+1][y+1],
       img[x+1][y], img[x+1][y-1], img[x][y-1], img[x-1][y-1] >>

\* transitions(neighbors): 0 -> 1 steps in P2, P3, ..., P9, P2.
transitions(P) ==
    LET n == P \o SubSeq(P, 1, 1)
    IN  Cardinality({i \in 1..(Len(n) - 1) : n[i] = 0 /\ n[i+1] = 1})

\* sum(P)
sum(P) == P[1] + P[2] + P[3] + P[4] + P[5] + P[6] + P[7] + P[8]

\* The pixels the two loops scan: range(1, rows - 1) x range(1, cols - 1).
scan_range(img) == (2..(shape(img)[1] - 1)) \X (2..(shape(img)[2] - 1))

\* A mutant of first_candidates: each candidate is cleared as soon as the scan
\* (row by row, left to right) finds it, so that later pixels see the change.
RECURSIVE scan_in_place(_, _)
scan_in_place(img, i) ==
    LET h == shape(img)[1] - 2
        w == shape(img)[2] - 2
    IN  IF h <= 0 \/ w <= 0 \/ i > h * w THEN {}
        ELSE LET x == 2 + ((i - 1) \div w)
                 y == 2 + ((i - 1) % w)
                 P == neighbors(x, y, img)
                 hit == /\ img[x][y] = 1
                        /\ 2 <= sum(P) /\ sum(P) <= 6
                        /\ transitions(P) = 1
                        /\ P[1] * P[3] * P[5] = 0
                        /\ P[3] * P[5] * P[7] = 0
             IN  IF hit
                 THEN {<<x, y>>} \cup scan_in_place([img EXCEPT ![x][y] = 0], i + 1)
                 ELSE scan_in_place(img, i + 1)

first_candidates_in_place(img) == scan_in_place(img, 1)

\* deletion_candidates of first_subiteration: collected on the array as it is
\* when the scan starts.
first_candidates(img) ==
    {p \in scan_range(img) :
        /\ img[p[1]][p[2]] = 1
        /\ LET P == neighbors(p[1], p[2], img)
           IN  /\ 2 <= sum(P) /\ sum(P) <= 6
               /\ transitions(P) = 1
               /\ P[1] * P[3] * P[5] = 0
               /\ P[3] * P[5] * P[7] = 0}

\* deletion_candidates of second_subiteration.
second_candidates(img) ==
    {p \in scan_range(img) :
        /\ img[p[1]][p[2]] = 1
        /\ LET P == neighbors(p[1], p[2], img)
           IN  /\ 2 <= sum(P) /\ sum(P) <= 6
               /\ transitions(P) = 1
               /\ P[1] * P[3] * P[7] = 0
               /\ P[1] * P[5] * P[7] = 0}

\* A mutant of delete: the candidates are cleared and the pixels next to them
\* in their row and column are set.
delete_spreading(img, cands) ==
    [x \in 1..Len(img) |-> [y \in 1..Len(img[x]) |->
        IF <<x, y>> \in cands THEN 0
        ELSE IF {<<x - 1, y>>, <<x + 1, y>>, <<x, y - 1>>, <<x, y + 1>>} \cap cands # {}
             THEN 1
             ELSE img[x][y]]]

\* A mutant of delete: each candidate is cleared together with the pixel to
\* its west.
delete_with_west(img, cands) ==
    [x \in 1..Len(img) |-> [y \in 1..Len(img[x]) |->
        IF <<x, y>> \in cands \/ <<x, y + 1>> \in cands THEN 0 ELSE img[x][y]]]

\* for x, y in deletion_candidates: image[x][y] = 0
delete(img, cands) ==
    [x \in 1..Len(img) |-> [y \in 1..Len(img[x]) |->
        IF <<x, y>> \in cands THEN 0 ELSE img[x][y]]]

first_subiteration(img) == delete(img, first_candidates(img))

second_subiteration(img) == delete(img, second_candidates(img))

\* A mutant of loop_exit: the loop is left after its first pass.
loop_exit_at_once(img, prv) == TRUE

\* if np.array_equal(image, prev): break
loop_exit(img, prv) == img = prv

\* A mutant of next_prev: prev is never refreshed.
next_prev_stale(img, prv) == prv

\* prev = image.copy()
next_prev(img, prv) == img

\* The while loop, as a function: used where thinning runs inside one handler.
RECURSIVE thinning_loop(_, _)
thinning_loop(img, prv) ==
    LET after == second_subiteration(first_subiteration(img))
    IN  IF loop_exit(after, prv) THEN after
        ELSE thinning_loop(after, next_prev(after, prv))

morphological_thinning(img) ==
    LET binary == floordiv(img, 255)
    IN  scale(thinning_loop(binary, zeros(shape(binary)[1], shape(binary)[2])), 255)

\* A mutant of pixel_count: the mask is counted, not its skeleton.
pixel_count_of_mask(mask, skel) == count_nonzero(mask)

\* np.count_nonzero(skeleton) in measure_cell
pixel_count(mask, skel) == count_nonzero(skel)

\* length = np.count_nonzero(skeleton) / 3.06, kept as an exact fraction.
cell_length(mask, skel) ==
    [num |-> pixel_count(mask, skel) * CalibrationDen, den |-> CalibrationNum]

\* A mutant of measure_cell_argument: the thinning works in the array that
\* was passed in.
measure_cell_thins_argument(mask) ==
    LET binary == floordiv(mask, 255)
    IN  thinning_loop(binary, zeros(shape(binary)[1], shape(binary)[2]))

\* What the array passed to measure_cell holds after the call:
\* image = image.copy() // 255 binds a new array to the local name, and the
\* subiterations write that one.
measure_cell_argument(mask) == mask

\* measure_cell(cell_mask)
measure_cell(mask) ==
    LET skel == morphological_thinning(mask)
    IN  [skeleton |-> skel, length |-> cell_length(mask, skel)]

(***************************************************************************)
(* measure_cell step by step: the caller's mask, then the thinning loop    *)
(* one subiteration at a time, then the count.                             *)
(***************************************************************************)
NoLength == [num |-> 0, den |-> 0]

\* Arrays the widget holds.  A held array is a record: ndim 0 stands for None
\* or a missing layer, ndim 2 for an H x W array, ndim 3 for an H x W x 3
\* array whose three channels are equal (a holds one of them).
NoArray == [ndim |-> 0, a |-> <<>>]
Array2(a) == [ndim |-> 2, a |-> a]
Array3(a) == [ndim |-> 3, a |-> a]

\* No measurements file, the first image shown, and no export asked for.
NoFile == [exists |-> FALSE, measurements |-> <<>>]
NoExport ==
    /\ measurements_file = NoFile
    /\ image_spin = 0
    /\ export_status = ""
    /\ updated = FALSE

\* The closing loop of initial_preprocessing is not looked at.
NoClosing ==
    preprocessing = [pc |-> "idle", adaptive_thresh |-> <<>>, adaptive_thresh_copy |-> <<>>,
                     closing |-> <<>>, kernel_size |-> 0, iterations |-> 0, i |-> 0]

\* measure_cell called on its own: no widget is involved.
NoWidget ==
    /\ layer_preprocessed = NoArray
    /\ layer_cell_mask = NoArray
    /\ accumulated_mask = NoArray
    /\ point_selection_enabled = FALSE
    /\ is_erase_mode = FALSE
    /\ erase_radius = DefaultEraseRadius
    /\ erase_btn_enabled = FALSE
    /\ mouse_drag_callbacks = 0
    /\ raised = "none"
    /\ stdout = ""
    /\ covered = FALSE
    /\ regrown = FALSE
    /\ layer_image = NoArray
    /\ layer_skeleton = NoArray
    /\ is_preprocessing = FALSE
    /\ block_size_slider = BlockSizeInit
    /\ c_value_slider = CValueInit
    /\ kernel_slider = KernelInit
    /\ iter_slider = IterInit
    /\ invocations = <<>>
    /\ timers = 0
    /\ progress_value = 0
    /\ result_length = NoLength

\* Row-major position of a pixel.
Idx(p) == (p[1] - 1) * ThinCols + p[2]

ThinInit ==
    /\ cell_mask = zeros(ThinRows, ThinCols)
    /\ image = zeros(ThinRows, ThinCols)
    /\ prev = zeros(ThinRows, ThinCols)
    /\ thin_pc = "input"
    /\ skeleton = zeros(ThinRows, ThinCols)
    /\ length = NoLength
    /\ passes = 0
    /\ deleted = 0
    /\ zero_pass = 0
    /\ NoWidget
    /\ NoClosing
    /\ NoExport

\* The caller's binary mask (0/255): any mask of at most ThinMaxFg foreground
\* pixels, each built once, pixel after pixel in row-major order.
SetPixel ==
    /\ thin_pc = "input"
    /\ count_nonzero(cell_mask) < ThinMaxFg
    /\ \E p \in Pixels(cell_mask) :
         /\ \A q \in Pixels(cell_mask) : cell_mask[q[1]][q[2]] # 0 => Idx(q) < Idx(p)
         /\ cell_mask' = [cell_mask EXCEPT ![p[1]][p[2]] = 255]
    /\ UNCHANGED <<image, prev, thin_pc, skeleton, length, passes, deleted, zero_pass>>
    /\ UNCHANGED <<traceVars, widgetVars, closeVars, exportVars>>

\* measure_cell -> morphological_thinning: image = image.copy() // 255,
\* prev = np.zeros(image.shape)
ThinningEnter ==
    /\ thin_pc = "input"
    /\ image' = floordiv(cell_mask, 255)
    /\ prev' = zeros(shape(cell_mask)[1], shape(cell_mask)[2])
    /\ thin_pc' = "sub1"
    /\ UNCHANGED <<cell_mask, skeleton, length, passes, deleted, zero_pass>>
    /\ UNCHANGED <<traceVars, widgetVars, closeVars, exportVars>>

\* image = first_subiteration(image)
FirstSubiteration ==
    /\ thin_pc = "sub1"
    /\ passes <= ThinRows * ThinCols + 1
    /\ image' = first_subiteration(image)
    /\ deleted' = Cardinality(first_candidates(image))
    /\ thin_pc' = "sub2"
    /\ UNCHANGED <<cell_mask, prev, skeleton, length, passes, zero_pass>>
    /\ UNCHANGED <<traceVars, widgetVars, closeVars, exportVars>>

\* image = second_subiteration(image)
SecondSubiteration ==
    /\ thin_pc = "sub2"
    /\ image' = second_subiteration(image)
    /\ deleted' = deleted + Cardinality(second_candidates(image))
    /\ passes' = passes + 1
    /\ zero_pass' = IF zero_pass = 0 /\ deleted' = 0 THEN passes' ELSE zero_pass
    /\ thin_pc' = "check"
    /\ UNCHANGED <<cell_mask, prev, skeleton, length>>
    /\ UNCHANGED <<traceVars, widgetVars, closeVars, exportVars>>

\* if np.array_equal(image, prev): break / prev = image.copy()
LoopCheck ==
    /\ thin_pc = "check"
    /\ IF loop_exit(image, prev)
       THEN /\ thin_pc' = "exit"
            /\ UNCHANGED prev
       ELSE /\ thin_pc' = "sub1"
            /\ prev' = next_prev(image, prev)
    /\ UNCHANGED <<cell_mask, image, skeleton, length, passes, deleted, zero_pass>>
    /\ UNCHANGED <<traceVars, widgetVars, closeVars, exportVars>>

\* return image * 255
ThinningReturn ==
    /\ thin_pc = "exit"
    /\ skeleton' = scale(image, 255)
    /\ thin_pc' = "returned"
    /\ UNCHANGED <<cell_mask, image, prev, length, passes, deleted, zero_pass>>
    /\ UNCHANGED <<traceVars, widgetVars, closeVars, exportVars>>

\* length = np.count_nonzero(skeleton) / 3.06; return skeleton, length
MeasureCellReturn ==
    /\ thin_pc = "returned"
    /\ length' = cell_length(cell_mask, skeleton)
    /\ thin_pc' = "measured"
    /\ UNCHANGED <<cell_mask, image, prev, skeleton, passes, deleted, zero_pass>>
    /\ UNCHANGED <<traceVars, widgetVars, closeVars, exportVars>>

ThinNext ==
    \/ SetPixel
    \/ ThinningEnter
    \/ FirstSubiteration
    \/ SecondSubiteration
    \/ LoopCheck
    \/ ThinningReturn
    \/ MeasureCellReturn

SpecThin == ThinInit /\ [][ThinNext]_vars

(***************************************************************************)
(* Reference notions the claims are stated with.                           *)
(***************************************************************************)
\* Foreground pixels of an array.
Fg(a) == {p \in Pixels(a) : a[p[1]][p[2]] # 0}

Abs(n) == IF n < 0 THEN -n ELSE n

Adj8(p, q) == p # q /\ Abs(p[1] - q[1]) <= 1 /\ Abs(p[2] - q[2]) <= 1

Adj4(p, q) == Abs(p[1] - q[1]) + Abs(p[2] - q[2]) = 1

\* The pixels of S connected to p by a chain of 8-adjacent pixels of S.
RECURSIVE Closure8(_, _)
Closure8(S, R) ==
    LET more == {q \in S \ R : \E p \in R : Adj8(p, q)}
    IN  IF more = {} THEN R ELSE Closure8(S, R \cup more)

Components8(S) == {Closure8(S, {p}) : p \in S}

(***************************************************************************)
(* C3: morphological_thinning terminates: the loop of full passes reaches  *)
(* a pass that deletes zero pixels, after at most as many passes as the    *)
(* input has foreground pixels.  As stated (C3_ZeroPassWithinCount) this   *)
(* fails: an empty mask needs one pass, and a mask the first pass empties  *)
(* leaves the loop without any pass that deletes nothing.                  *)
(***************************************************************************)
C3_ZeroPassWithinCount ==
    thin_pc = "exit" =>
        /\ zero_pass # 0
        /\ zero_pass <= count_nonzero(cell_mask)

\* C3, amended: the loop always leaves; it leaves after a pass that deleted
\* nothing or that left the array all-background, the array it leaves with is
\* a fixed point of both subiterations, and at most count + 1 passes ran.
C3_Terminates ==
    /\ passes <= count_nonzero(cell_mask) + 1
    /\ thin_pc = "sub1" => passes <= count_nonzero(cell_mask)
    /\ thin_pc = "exit" =>
        /\ deleted = 0 \/ count_nonzero(image) = 0
        /\ first_subiteration(image) = image
        /\ second_subiteration(image) = image

\* A run in which a pass deletes some pixels, not all, and a later pass none.
C3_Witness ==
    /\ thin_pc = "exit"
    /\ passes >= 2
    /\ deleted = 0
    /\ 0 < count_nonzero(image)
    /\ count_nonzero(image) < count_nonzero(cell_mask)

(***************************************************************************)
(* C4: the skeleton preserves the topology of the input: every 8-connected *)
(* component of the input contains exactly one 8-connected component of    *)
(* the skeleton, and the skeleton has no pixel outside the input.          *)
(***************************************************************************)
C4_TopologyPreserved ==
    thin_pc = "returned" =>
        /\ Fg(skeleton) \subseteq Fg(cell_mask)
        /\ \A comp \in Components8(Fg(cell_mask)) :
             Cardinality({k \in Components8(Fg(skeleton)) : k \subseteq comp}) = 1

(***************************************************************************)
(* C7: measure_cell returns length = (foreground pixels of the skeleton of *)
(* the given mask) / 3.06: zero exactly when the skeleton is empty.        *)
(***************************************************************************)
C7_LengthIsSkeletonCountOverCalibration ==
    thin_pc = "measured" =>
        /\ skeleton = morphological_thinning(cell_mask)
        /\ length.den > 0
        /\ length.num * CalibrationNum = Cardinality(Fg(skeleton)) * CalibrationDen * length.den
        /\ (length.num = 0) <=> (Fg(skeleton) = {})
        /\ measure_cell(cell_mask) = [skeleton |-> skeleton, length |-> length]

\* A measured mask whose skeleton is smaller than the mask and not empty.
C7_Witness ==
    /\ thin_pc = "measured"
    /\ count_nonzero(skeleton) > 0
    /\ count_nonzero(skeleton) < count_nonzero(cell_mask)

(***************************************************************************)
(* trace_cell and the click handler.                                       *)
(***************************************************************************)
\* np.zeros_like(a)
zeros_like(a) == zeros(shape(a)[1], shape(a)[2])

(***************************************************************************)
(* trace_cell (measurement.py:48-76).  A point is (row, col) as Python     *)
(* counts them, from 0, and may lie outside the array.                     *)
(***************************************************************************)
\* cv2.threshold(image, 127, 255, cv2.THRESH_BINARY)
threshold(img) ==
    [x \in 1..Len(img) |-> [y \in 1..Len(img[x]) |->
        IF img[x][y] > ThresholdLevel THEN 255 ELSE 0]]

\* numpy's a[i] on an axis of length n raises IndexError outside -n..n-1 ...
index_error(i, n) == i >= n \/ i < -n

\* ... and counts a negative i from the end: the position read, from 1.
np_index(i, n) == IF i < 0 THEN i + n + 1 ELSE i + 1

\* A mutant of connected: the fill spreads to the 8 neighbours.
connected8(p) ==
    {<<p[1] + dx, p[2] + dy>> : dx \in {-1, 0, 1}, dy \in {-1, 0, 1}} \ {p}

\* cv2.floodFill's default connectivity: the 4 edge neighbours of a pixel.
connected(p) ==
    {<<p[1] - 1, p[2]>>, <<p[1] + 1, p[2]>>, <<p[1], p[2] - 1>>, <<p[1], p[2] + 1>>}

\* The region cv2.floodFill repaints (loDiff = upDiff = 0): the pixels holding
\* the seed's value that the fill reaches from the seed.
RECURSIVE flood_region(_, _, _)
flood_region(img, val, region) ==
    LET more == {q \in Pixels(img) \ region :
                    /\ img[q[1]][q[2]] = val
                    /\ \E p \in region : q \in connected(p)}
    IN  IF more = {} THEN region ELSE flood_region(img, val, region \cup more)

\* cv2.floodFill(flood_filled, mask, seedPoint=(col, row), newVal=new_val);
\* the seed is inside the array (OpenCV rejects any other).
floodFill(img, seed, new_val) ==
    LET region == flood_region(img, img[seed[1]][seed[2]], {seed})
    IN  [x \in 1..Len(img) |-> [y \in 1..Len(img[x]) |->
            IF <<x, y>> \in region THEN new_val ELSE img[x][y]]]

NotOnCell == "Seed point is not on a cell. Please click inside the cell."

\* A mutant of not_on_cell_mask: the binary image is returned as the region.
not_on_cell_returns_binary(binary) == binary

\* return np.zeros_like(binary)
not_on_cell_mask(binary) == zeros_like(binary)

\* trace_cell(image, point): the region mask, what was printed, what was raised.
trace_cell(img, point) ==
    LET binary == threshold(img)
        rows == shape(binary)[1]
        cols == shape(binary)[2]
    IN  IF index_error(point[1], rows) \/ index_error(point[2], cols)
        THEN [raised |-> "IndexError", stdout |-> "", cell_mask |-> <<>>]
        ELSE IF binary[np_index(point[1], rows)][np_index(point[2], cols)] # 255
        THEN [raised |-> "none", stdout |-> NotOnCell,
              cell_mask |-> not_on_cell_mask(binary)]
        ELSE IF point[1] < 0 \/ point[2] < 0
        THEN \* floodFill: "Seed point is outside of image"
             [raised |-> "cv2.error", stdout |-> "", cell_mask |-> <<>>]
        ELSE LET flood_filled == floodFill(binary, <<point[1] + 1, point[2] + 1>>, NewVal)
             IN  [raised |-> "none", stdout |-> "",
                  cell_mask |-> [x \in 1..rows |-> [y \in 1..cols |->
                      IF flood_filled[x][y] = NewVal THEN 255 ELSE 0]]]

\* A mutant of trace_cell_argument: the flood fill paints the array that was
\* passed in.
trace_cell_fills_argument(img, point) ==
    LET traced == trace_cell(img, point)
    IN  IF traced.raised = "none" /\ traced.stdout = ""
        THEN floodFill(threshold(img), <<point[1] + 1, point[2] + 1>>, NewVal)
        ELSE img

\* What the array passed to trace_cell holds after the call: cv2.threshold is
\* given no dst and returns a new array, floodFill paints flood_filled, a copy
\* of that one, and cell_mask is a third; the argument is only read.
trace_cell_argument(img, point) == img

(***************************************************************************)
(* cv2.circle(img, (x, y), radius, 0, -1) (widget.py:738): OpenCV's filled *)
(* circle, thickness < 0 and LINE_8, is its integer midpoint loop: one     *)
(* step per dy, each painting rows y -+ dy from x - dx to x + dx and rows  *)
(* y -+ dx from x - dy to x + dy, clipped to the image.                    *)
(***************************************************************************)
\* The (dx, dy) of the steps the loop makes, from the state before a step.
RECURSIVE circle_steps(_, _, _, _, _)
circle_steps(err, dx, dy, plus, minus) ==
    IF dx < dy THEN {}
    ELSE LET err1 == err + plus
             over == err1 > 0
         IN  {<<dx, dy>>} \cup
             circle_steps(IF over THEN err1 - minus ELSE err1,
                          IF over THEN dx - 1 ELSE dx,
                          dy + 1,
                          plus + 2,
                          IF over THEN minus - 2 ELSE minus)

\* The offsets (drow, dcol) from the centre that a filled circle paints.
circle_offsets(radius) ==
    UNION {
        {<<dr, dc>> : dr \in {-s[2], s[2]}, dc \in (-s[1])..s[1]} \cup
        {<<dr, dc>> : dr \in {-s[1], s[1]}, dc \in (-s[2])..s[2]}
        : s \in circle_steps(0, radius, 0, 1, 2 * radius - 1)}

\* The radii the eraser takes: the initial one and those the slider is moved to.
Radii == (1..MaxRadius) \cup {DefaultEraseRadius}

\* What the loop paints for each of those radii.
CircleOffsets == [radius \in Radii |-> circle_offsets(radius)]

\* A mutant of circle_center: the centre is passed as (row, col).
circle_center_swapped(y, x) == <<x, y>>

\* widget.py:738 passes the centre as (x, y): OpenCV's (col, row).
circle_center(y, x) == <<y, x>>

\* cv2.circle(a, (x, y), radius, 0, -1) on the array a, in place; y, x from 0.
circle(a, y, x, radius) ==
    LET c == circle_center(y, x)
        off == CircleOffsets[radius]
    IN  [r \in 1..Len(a) |-> [k \in 1..Len(a[r]) |->
            IF <<(r - 1) - c[1], (k - 1) - c[2]>> \in off THEN 0 ELSE a[r][k]]]

(***************************************************************************)
(* SpermMeasureWidget._on_click (widget.py:726-768).                       *)
(***************************************************************************)
\* A mutant of np_maximum: the region toggles the mask (exclusive or).
np_toggle(acc, cell) ==
    [x \in 1..Len(acc) |-> [y \in 1..Len(acc[x]) |->
        IF acc[x][y] = cell[x][y] THEN 0 ELSE 255]]

\* A mutant of np_maximum: the masks are intersected.
np_minimum(acc, cell) ==
    [x \in 1..Len(acc) |-> [y \in 1..Len(acc[x]) |->
        IF acc[x][y] <= cell[x][y] THEN acc[x][y] ELSE cell[x][y]]]

\* np.maximum(acc, cell_body) on two arrays of one shape.
np_maximum(acc, cell) ==
    [x \in 1..Len(acc) |-> [y \in 1..Len(acc[x]) |->
        IF acc[x][y] >= cell[x][y] THEN acc[x][y] ELSE cell[x][y]]]

\* np.maximum of the held mask and the H x W region: an H x W x 3 mask does
\* not broadcast against it when the image is wider than 3 pixels, and neither
\* does a mask of another H x W.
maximum_raises(acc, cell) ==
    acc.ndim # 2 \/ shape(acc.a) # shape(cell)

\* One call of _on_click(viewer, event) with int coordinates y, x, on the
\* fields it reads and writes: w = [accumulated_mask, layer_cell_mask, raised,
\* stdout].
on_click(w, pre, enabled, erase, radius, y, x) ==
    IF ~enabled \/ pre.ndim = 0 THEN w
    ELSE IF erase
    THEN IF w.accumulated_mask.ndim = 0 THEN w
         ELSE LET erased == [w.accumulated_mask EXCEPT
                                 !.a = circle(w.accumulated_mask.a, y, x, radius)]
              IN  [w EXCEPT !.accumulated_mask = erased,
                            !.layer_cell_mask =
                                IF w.layer_cell_mask.ndim = 0 THEN NoArray ELSE erased]
    ELSE LET traced == trace_cell(pre.a, <<y, x>>)
             acc == IF w.accumulated_mask.ndim = 0
                    THEN Array2(zeros_like(pre.a))
                    ELSE w.accumulated_mask
         IN  IF traced.raised # "none"
             THEN [w EXCEPT !.raised = traced.raised]
             ELSE IF maximum_raises(acc, traced.cell_mask)
             THEN [w EXCEPT !.accumulated_mask = acc,
                            !.raised = "ValueError",
                            !.stdout = traced.stdout]
             ELSE LET grown == Array2(np_maximum(acc.a, traced.cell_mask))
                  IN  [accumulated_mask |-> grown,
                       layer_cell_mask |-> grown,
                       raised |-> "none",
                       stdout |-> traced.stdout]

\* The array of the Preprocessed Image layer after _on_click: in tracing mode
\* it is the array handed to trace_cell (widget.py:746-749).
on_click_source(pre, enabled, erase, y, x) ==
    IF ~enabled \/ pre.ndim = 0 \/ erase THEN pre
    ELSE [pre EXCEPT !.a = trace_cell_argument(pre.a, <<y, x>>)]

\* napari calls every registered mouse-drag callback for a press, in order,
\* until one raises: _on_click runs once per registration.
RECURSIVE dispatch(_, _, _, _, _, _, _, _)
dispatch(n, w, pre, enabled, erase, radius, y, x) ==
    IF n = 0 \/ w.raised # "none" THEN w
    ELSE dispatch(n - 1, on_click(w, pre, enabled, erase, radius, y, x),
                  pre, enabled, erase, radius, y, x)

(***************************************************************************)
(* Reference notions for the tracing claims.                               *)
(***************************************************************************)
\* Foreground of the source mask as trace_cell reads it.
SourceFg(pre) == {p \in Pixels(pre.a) : pre.a[p[1]][p[2]] = 255}

\* The 4-connected foreground component of p: the least set of foreground
\* pixels that holds p and every foreground pixel 4-adjacent to one it holds.
Component4(S, p) ==
    LET closed == {T \in SUBSET S :
                      /\ p \in T
                      /\ \A t \in T : \A q \in S : Adj4(t, q) => q \in T}
    IN  {q \in S : \A T \in closed : q \in T}

\* The click coordinates (row, col from 0) an event can carry.
ClickRows(pre) == (-Margin)..(shape(pre.a)[1] - 1 + Margin)
ClickCols(pre) == (-Margin)..(shape(pre.a)[2] - 1 + Margin)
InBounds(pre, y, x) ==
    /\ 0 <= y /\ y < shape(pre.a)[1]
    /\ 0 <= x /\ x < shape(pre.a)[2]

(***************************************************************************)
(* The widget's handlers as actions.                                       *)
(***************************************************************************)
\* A mouse press at data coordinates (y, x) (widget.py:726-768).
MouseClick(y, x) ==
    /\ mouse_drag_callbacks > 0
    /\ UNCHANGED <<point_selection_enabled, is_erase_mode,
                   erase_radius, erase_btn_enabled, mouse_drag_callbacks>>
    /\ UNCHANGED <<thinVars, widgetVars, closeVars, exportVars>>
    /\ LET w0 == [accumulated_mask |-> accumulated_mask,
                  layer_cell_mask |-> layer_cell_mask,
                  raised |-> "none", stdout |-> ""]
           w == dispatch(mouse_drag_callbacks, w0, layer_preprocessed,
                         point_selection_enabled, is_erase_mode, erase_radius, y, x)
       IN  /\ accumulated_mask' = w.accumulated_mask
           /\ layer_cell_mask' = w.layer_cell_mask
           /\ raised' = w.raised
           /\ stdout' = w.stdout
    /\ covered' =
         /\ point_selection_enabled /\ ~is_erase_mode
         /\ layer_preprocessed.ndim = 2 /\ accumulated_mask.ndim = 2
         /\ InBounds(layer_preprocessed, y, x)
         /\ <<y + 1, x + 1>> \in SourceFg(layer_preprocessed)
         /\ Component4(SourceFg(layer_preprocessed), <<y + 1, x + 1>>)
                \subseteq Fg(accumulated_mask.a)
    /\ regrown' =
         /\ point_selection_enabled /\ ~is_erase_mode
         /\ layer_preprocessed.ndim = 2 /\ accumulated_mask.ndim = 2
         /\ InBounds(layer_preprocessed, y, x)
         /\ <<y + 1, x + 1>> \in SourceFg(layer_preprocessed)
         /\ LET comp == Component4(SourceFg(layer_preprocessed), <<y + 1, x + 1>>)
            IN  /\ comp \cap Fg(accumulated_mask.a) # {}
                /\ ~(comp \subseteq Fg(accumulated_mask.a))
    /\ layer_preprocessed' =
         on_click_source(layer_preprocessed, point_selection_enabled, is_erase_mode, y, x)

\* _toggle_erase_mode (widget.py:689-724), reached through the erase button.
ToggleEraseMode ==
    /\ erase_btn_enabled
    /\ is_erase_mode' = IF point_selection_enabled THEN ~is_erase_mode ELSE is_erase_mode
    /\ raised' = "none"
    /\ stdout' = ""
    /\ UNCHANGED <<layer_preprocessed, layer_cell_mask, accumulated_mask,
                   point_selection_enabled, erase_radius, erase_btn_enabled,
                   mouse_drag_callbacks>>
    /\ covered' = FALSE
    /\ regrown' = FALSE
    /\ UNCHANGED <<thinVars, widgetVars, closeVars, exportVars>>

\* erase_size_slider.valueChanged (widget.py:355-357); the slider is shown
\* only in erase mode (widget.py:694).
EraseSizeChanged(v) ==
    /\ is_erase_mode
    /\ v # erase_radius
    /\ erase_radius' = v
    /\ raised' = "none"
    /\ stdout' = ""
    /\ UNCHANGED <<layer_preprocessed, layer_cell_mask, accumulated_mask,
                   point_selection_enabled, is_erase_mode, erase_btn_enabled,
                   mouse_drag_callbacks>>
    /\ covered' = FALSE
    /\ regrown' = FALSE
    /\ UNCHANGED <<thinVars, widgetVars, closeVars, exportVars>>

(***************************************************************************)
(* Tracing on one preprocessed mask: the widget after an image was loaded, *)
(* preprocessed and Trace Cell Body pressed once (widget.py:637-662).      *)
(***************************************************************************)
\* No measurement is under way.
ThinIdle ==
    /\ cell_mask = <<>>
    /\ image = <<>>
    /\ prev = <<>>
    /\ thin_pc = "idle"
    /\ skeleton = <<>>
    /\ length = NoLength
    /\ passes = 0
    /\ deleted = 0
    /\ zero_pass = 0

\* The binary masks (0/255) of the given size with at most n foreground pixels.
BinaryMasks(rows, cols, n) ==
    {[x \in 1..rows |-> [y \in 1..cols |-> IF <<x, y>> \in S THEN 255 ELSE 0]] :
        S \in {T \in SUBSET ((1..rows) \X (1..cols)) : Cardinality(T) <= n}}

TracerInit ==
    /\ ThinIdle
    /\ NoClosing
    /\ NoExport
    /\ layer_preprocessed \in {Array2(m) : m \in BinaryMasks(Rows, Cols, MaxFg)}
    /\ layer_cell_mask = NoArray
    /\ accumulated_mask = Array2(zeros(Rows, Cols))
    /\ point_selection_enabled = TRUE
    /\ is_erase_mode = FALSE
    /\ erase_radius = DefaultEraseRadius
    /\ erase_btn_enabled = TRUE
    /\ mouse_drag_callbacks = 1
    /\ raised = "none"
    /\ stdout = ""
    /\ covered = FALSE
    /\ regrown = FALSE
    /\ layer_image = layer_preprocessed
    /\ layer_skeleton = NoArray
    /\ is_preprocessing = FALSE
    /\ block_size_slider = BlockSizeInit
    /\ c_value_slider = CValueInit
    /\ kernel_slider = KernelInit
    /\ iter_slider = IterInit
    /\ invocations = <<>>
    /\ timers = 0
    /\ progress_value = 0
    /\ result_length = NoLength

TracerNext ==
    \/ \E y \in ClickRows(layer_preprocessed), x \in ClickCols(layer_preprocessed) :
         MouseClick(y, x)
    \/ ToggleEraseMode
    \/ \E v \in 1..MaxRadius : EraseSizeChanged(v)

SpecTracer == TracerInit /\ [][TracerNext]_vars

(***************************************************************************)
(* Claims about growing and erasing.                                       *)
(***************************************************************************)
\* One grow from seed s (a source pixel, from 1) on the held mask acc.
Grow(acc, s) ==
    on_click([accumulated_mask |-> acc, layer_cell_mask |-> layer_cell_mask,
              raised |-> "none", stdout |-> ""],
             layer_preprocessed, TRUE, FALSE, erase_radius,
             s[1] - 1, s[2] - 1).accumulated_mask

\* The Euclidean disk of the given radius around (y, x), inside the array a.
Disk(a, y, x, radius) ==
    {p \in Pixels(a) :
        ((p[1] - 1) - y) * ((p[1] - 1) - y) + ((p[2] - 1) - x) * ((p[2] - 1) - x)
            <= radius * radius}

\* C1: a grow click on an in-bounds foreground seed makes the accumulated mask
\* the union of the old accumulated mask and the seed's 4-connected foreground
\* component in the source mask: the component's pixels are set, every other
\* pixel keeps its value, and nothing is raised.
C1_GrowIsUnionWithComponent ==
    [][\A s \in SourceFg(layer_preprocessed) :
          (/\ point_selection_enabled
           /\ ~is_erase_mode
           /\ accumulated_mask.ndim = 2
           /\ MouseClick(s[1] - 1, s[2] - 1))
          => LET comp == Component4(SourceFg(layer_preprocessed), s)
             IN  /\ raised' = "none"
                 /\ accumulated_mask'.ndim = 2
                 /\ shape(accumulated_mask'.a) = shape(accumulated_mask.a)
                 /\ \A p \in Pixels(accumulated_mask.a) :
                      accumulated_mask'.a[p[1]][p[2]] =
                          IF p \in comp THEN 255 ELSE accumulated_mask.a[p[1]][p[2]]
                 /\ Fg(accumulated_mask'.a) = Fg(accumulated_mask.a) \cup comp
      ]_vars

\* A grow has added a component of two or more pixels and left another
\* foreground pixel of the source out.
C1_Witness ==
    /\ ~is_erase_mode
    /\ raised = "none"
    /\ layer_cell_mask = accumulated_mask
    /\ \E s \in SourceFg(layer_preprocessed) :
         LET comp == Component4(SourceFg(layer_preprocessed), s)
         IN  /\ Cardinality(comp) >= 2
             /\ Fg(accumulated_mask.a) = comp
             /\ comp # SourceFg(layer_preprocessed)

C5_EraseClearsExactDisk ==
    [][\A s \in Pixels(layer_preprocessed.a) :
          (/\ point_selection_enabled
           /\ is_erase_mode
           /\ erase_radius >= 1
           /\ accumulated_mask.ndim = 2
           /\ MouseClick(s[1] - 1, s[2] - 1))
          => LET disk == Disk(accumulated_mask.a, s[1] - 1, s[2] - 1, erase_radius)
             IN  /\ raised' = "none"
                 /\ shape(accumulated_mask'.a) = shape(accumulated_mask.a)
                 /\ \A p \in Pixels(accumulated_mask.a) :
                      accumulated_mask'.a[p[1]][p[2]] =
                          IF p \in disk THEN 0 ELSE accumulated_mask.a[p[1]][p[2]]
      ]_vars

\* In erase mode with a small radius, part of a grown component is gone and an
\* adjacent part of it is still set: an erase cut through it.
C5_Witness ==
    /\ is_erase_mode
    /\ erase_radius <= MaxRadius
    /\ layer_cell_mask = accumulated_mask
    /\ \E p \in SourceFg(layer_preprocessed), q \in SourceFg(layer_preprocessed) :
         /\ Adj4(p, q)
         /\ p \in Fg(accumulated_mask.a)
         /\ q \notin Fg(accumulated_mask.a)

\* C6: for two foreground seeds of one 4-connected component of the source,
\* growing from the first and then from the second gives the accumulated mask
\* that growing from the first alone gives; so does growing twice from one seed.
C6_GrowIdempotentPerComponent ==
    accumulated_mask.ndim = 2 =>
        \A s1 \in SourceFg(layer_preprocessed) :
            \A s2 \in Component4(SourceFg(layer_preprocessed), s1) :
                /\ Grow(Grow(accumulated_mask, s1), s2) = Grow(accumulated_mask, s1)
                /\ Grow(Grow(accumulated_mask, s1), s1) = Grow(accumulated_mask, s1)

\* The latest click grew from a seed whose component, of two or more pixels,
\* the accumulated mask already held, next to foreground of another component.
C6_Witness ==
    /\ covered
    /\ raised = "none"
    /\ ~is_erase_mode
    /\ \E p \in Fg(accumulated_mask.a), q \in Fg(accumulated_mask.a) : Adj4(p, q)
    /\ \E p \in Fg(accumulated_mask.a), q \in Fg(accumulated_mask.a) :
         p # q /\ q \notin Component4(Fg(accumulated_mask.a), p)

\* C9: a click outside the mask raises nothing, is not read as another pixel
\* of the mask, and, when it is a grow, leaves the accumulated mask unchanged.
C9_OutOfBoundsIsHarmless ==
    [][\A y \in ClickRows(layer_preprocessed), x \in ClickCols(layer_preprocessed) :
          (/\ point_selection_enabled
           /\ ~InBounds(layer_preprocessed, y, x)
           /\ MouseClick(y, x))
          => /\ raised' = "none"
             /\ stdout' # NotOnCell
             /\ ~is_erase_mode => accumulated_mask' = accumulated_mask
      ]_vars

(***************************************************************************)
(* The preprocessing sliders (widget.py:234-296, 425-474).                 *)
(***************************************************************************)
SliderNames == {"block_size", "c_value", "kernel_size", "iterations"}

SliderMin == [block_size |-> BlockSizeMin, c_value |-> CValueMin,
              kernel_size |-> KernelMin, iterations |-> IterMin]
SliderMax == [block_size |-> BlockSizeMax, c_value |-> CValueMax,
              kernel_size |-> KernelMax, iterations |-> IterMax]

\* The four slider values as the handler reads them.
Sliders ==
    [block_size |-> block_size_slider, c_value |-> c_value_slider,
     kernel_size |-> kernel_slider, iterations |-> iter_slider]

\* QSlider.setValue keeps the value inside the slider's range.
bound(name, v) ==
    IF v < SliderMin[name] THEN SliderMin[name]
    ELSE IF v > SliderMax[name] THEN SliderMax[name] ELSE v

\* A mutant of next_odd: an even value is kept.
next_odd_kept(value) == value

\* value += 1
next_odd(value) == value + 1

\* cv2.adaptiveThreshold accepts only an odd blockSize above 1; with no
\* iteration the closing loop leaves `closing` unbound.
preprocessing_raises(call) ==
    \/ call.block_size % 2 # 1
    \/ call.block_size <= 1
    \/ call.iterations < 1

\* _update_preprocessing_for_slider(param_name, value), entered with the
\* sliders at sl (the moved one already at value) in preprocessing mode on a
\* loaded image: the sliders it leaves and the initial_preprocessing calls
\* made, in order.  setValue on a changed value emits valueChanged, which runs
\* the handler again before setValue returns.
RECURSIVE update_preprocessing_for_slider(_, _, _)
update_preprocessing_for_slider(sl, param_name, value) ==
    LET params == sl
        even == param_name \in {"block_size", "kernel_size"} /\ value % 2 = 0
        value1 == IF even THEN next_odd(value) ELSE value
        set == bound(param_name, value1)
        nested == IF even /\ set # sl[param_name]
                  THEN update_preprocessing_for_slider(
                           [sl EXCEPT ![param_name] = set], param_name, set)
                  ELSE [sliders |-> sl, calls |-> <<>>, raised |-> "none"]
        call == [params EXCEPT ![param_name] = value1]
    IN  IF nested.raised # "none" THEN nested
        ELSE [sliders |-> nested.sliders,
              calls |-> Append(nested.calls, call),
              raised |-> IF preprocessing_raises(call) THEN "cv2.error" ELSE "none"]

\* The values a slider is moved to: those near either end of its range.
Moves(name) ==
    {v \in SliderMin[name]..SliderMax[name] :
        v - SliderMin[name] <= SliderSpan \/ SliderMax[name] - v <= SliderSpan}

\* initial_preprocessing(image, iterations, kernel_size, block_size, c_value)
\* (measurement.py:10-46): a colour photograph is reduced to one channel, and
\* the result is a binary (0/255) array of the photograph's height and width.
\* A photograph is held as the mask that normalisation, blur, adaptive
\* threshold and closing make of it; how that mask varies with the parameters
\* is left out.
initial_preprocessing(img, iterations, kernel_size, block_size, c_value) ==
    [x \in 1..shape(img.a)[1] |-> [y \in 1..shape(img.a)[2] |->
        IF img.a[x][y] > 0 THEN 255 ELSE 0]]

\* The user moves a parameter slider to v (the sliders are shown only in
\* preprocessing mode, widget.py:273, 485, 491).
SliderChanged(name, v) ==
    /\ is_preprocessing
    /\ layer_image.ndim # 0
    /\ v # Sliders[name]
    /\ LET r == update_preprocessing_for_slider(
                    [Sliders EXCEPT ![name] = v], name, v)
       IN  /\ block_size_slider' = r.sliders.block_size
           /\ c_value_slider' = r.sliders.c_value
           /\ kernel_slider' = r.sliders.kernel_size
           /\ iter_slider' = r.sliders.iterations
           /\ invocations' = r.calls
           /\ raised' = r.raised
           /\ IF r.raised = "none"
              THEN LET call == r.calls[Len(r.calls)]
                   IN  layer_preprocessed' =
                           Array2(initial_preprocessing(layer_image, call.iterations,
                                      call.kernel_size, call.block_size, call.c_value))
              ELSE UNCHANGED layer_preprocessed
    /\ stdout' = ""
    /\ covered' = FALSE
    /\ regrown' = FALSE
    /\ UNCHANGED <<layer_cell_mask, accumulated_mask, point_selection_enabled,
                   is_erase_mode, erase_radius, erase_btn_enabled,
                   mouse_drag_callbacks>>
    /\ UNCHANGED <<layer_image, layer_skeleton, is_preprocessing, timers,
                   progress_value, result_length>>
    /\ UNCHANGED <<thinVars, closeVars, exportVars>>

\* _on_preprocess_click (widget.py:476-492)
PreprocessClick ==
    /\ layer_image.ndim # 0
    /\ is_preprocessing' = ~is_preprocessing
    /\ invocations' = <<>>
    /\ raised' = "none"
    /\ stdout' = ""
    /\ covered' = FALSE
    /\ regrown' = FALSE
    /\ UNCHANGED <<layer_preprocessed, layer_cell_mask, accumulated_mask,
                   point_selection_enabled, is_erase_mode, erase_radius,
                   erase_btn_enabled, mouse_drag_callbacks>>
    /\ UNCHANGED <<layer_image, layer_skeleton, block_size_slider, c_value_slider,
                   kernel_slider, iter_slider, timers, progress_value, result_length>>
    /\ UNCHANGED <<thinVars, closeVars, exportVars>>

\* The widget as __init__ leaves it (widget.py:24-30, 99) once
\* _load_current_image has shown the photograph img.
Constructed(img) ==
    /\ ThinIdle
    /\ NoClosing
    /\ layer_image = img
    /\ layer_preprocessed = NoArray
    /\ layer_cell_mask = NoArray
    /\ layer_skeleton = NoArray
    /\ accumulated_mask = NoArray
    /\ point_selection_enabled = FALSE
    /\ is_erase_mode = FALSE
    /\ erase_radius = DefaultEraseRadius
    /\ erase_btn_enabled = FALSE
    /\ mouse_drag_callbacks = 0
    /\ is_preprocessing = FALSE
    /\ block_size_slider = BlockSizeInit
    /\ c_value_slider = CValueInit
    /\ kernel_slider = KernelInit
    /\ iter_slider = IterInit
    /\ invocations = <<>>
    /\ timers = 0
    /\ progress_value = 0
    /\ result_length = NoLength
    /\ raised = "none"
    /\ stdout = ""
    /\ covered = FALSE
    /\ regrown = FALSE

\* The sliders and the preprocessing mode, on a one-pixel photograph.
SlidersInit == Constructed(Array2(<<<<0>>>>)) /\ NoExport

SlidersNext ==
    \/ PreprocessClick
    \/ \E name \in SliderNames : \E v \in Moves(name) : SliderChanged(name, v)

SpecSliders == SlidersInit /\ [][SlidersNext]_vars

\* C10: every initial_preprocessing call the slider handler makes gets an odd
\* block_size and an odd kernel_size of at least 3 and at least 1 iteration,
\* none of them is rejected, and the two size sliders are left on odd values.
C10_PreprocessingGetsValidSizes ==
    /\ \A i \in 1..Len(invocations) :
         /\ invocations[i].block_size % 2 = 1
         /\ invocations[i].block_size >= 3
         /\ invocations[i].kernel_size % 2 = 1
         /\ invocations[i].kernel_size >= 3
         /\ invocations[i].iterations >= 1
    /\ raised = "none"
    /\ block_size_slider % 2 = 1
    /\ kernel_slider % 2 = 1

\* The block size slider was moved to the even value below its maximum while
\* the kernel slider was off its initial value: the handler ran twice, for the
\* corrected value and for the move.
C10_Witness ==
    /\ is_preprocessing
    /\ Len(invocations) = 2
    /\ invocations[2].block_size = BlockSizeMax
    /\ block_size_slider = BlockSizeMax
    /\ kernel_slider # KernelInit

(***************************************************************************)
(* The rest of the widget: image loading, tracing on and off, measuring.   *)
(***************************************************************************)
\* The photographs np.array(Image.open(path)) gives (data_handling.py:120-121):
\* H x W for a greyscale file, H x W x 3 for a colour one.
Photographs ==
    {[ndim |-> d, a |-> m] : d \in {2, 3}, m \in BinaryMasks(ImgRows, ImgCols, ImgMaxFg)}

\* _load_current_image (widget.py:562-594) showing the photograph img.
load_current_image(img) ==
    /\ layer_image' = img
    /\ layer_preprocessed' = NoArray
    /\ layer_cell_mask' = NoArray
    /\ layer_skeleton' = NoArray
    /\ point_selection_enabled' = FALSE
    /\ accumulated_mask' = NoArray
    /\ invocations' = <<>>
    /\ raised' = "none"
    /\ stdout' = ""
    /\ covered' = FALSE
    /\ regrown' = FALSE
    /\ UNCHANGED <<is_erase_mode, erase_radius, erase_btn_enabled, mouse_drag_callbacks,
                   is_preprocessing, block_size_slider, c_value_slider, kernel_slider,
                   iter_slider, timers, progress_value, result_length>>
    /\ UNCHANGED <<thinVars, closeVars>>

\* The navigation controls showing another photograph.
LoadImage(img) ==
    /\ load_current_image(img)
    /\ UNCHANGED exportVars

\* A mutant of initial_accumulated_mask: the array is copied, not zeroed.
initial_accumulated_mask_copy(pre, img) ==
    IF pre.ndim # 0 THEN pre ELSE img

\* np.zeros_like of the Preprocessed Image layer's data if the layer exists,
\* of the photograph otherwise (widget.py:655-659).
initial_accumulated_mask(pre, img) ==
    IF pre.ndim # 0
    THEN [ndim |-> pre.ndim, a |-> zeros_like(pre.a)]
    ELSE [ndim |-> img.ndim, a |-> zeros_like(img.a)]

\* _on_trace_click (widget.py:637-668)
TraceClick ==
    /\ layer_image.ndim # 0
    /\ IF ~point_selection_enabled
       THEN /\ mouse_drag_callbacks < MaxCallbacks
            /\ point_selection_enabled' = TRUE
            /\ accumulated_mask' = initial_accumulated_mask(layer_preprocessed, layer_image)
            /\ mouse_drag_callbacks' = mouse_drag_callbacks + 1
            /\ erase_btn_enabled' = TRUE
            /\ UNCHANGED is_erase_mode
       ELSE /\ erase_btn_enabled' = FALSE
            /\ is_erase_mode' = FALSE
            /\ point_selection_enabled' = FALSE
            /\ UNCHANGED <<accumulated_mask, mouse_drag_callbacks>>
    /\ invocations' = <<>>
    /\ raised' = "none"
    /\ stdout' = ""
    /\ covered' = FALSE
    /\ regrown' = FALSE
    /\ UNCHANGED <<layer_preprocessed, layer_cell_mask, erase_radius>>
    /\ UNCHANGED <<layer_image, layer_skeleton, is_preprocessing, block_size_slider,
                   c_value_slider, kernel_slider, iter_slider, timers, progress_value,
                   result_length>>
    /\ UNCHANGED <<thinVars, closeVars, exportVars>>

\* _on_measure_click (widget.py:770-809): the bar is reset and a timer started,
\* while fewer than n timers run.
MeasureClickUpTo(n) ==
    /\ IF accumulated_mask.ndim = 0
       THEN UNCHANGED <<timers, progress_value>>
       ELSE /\ timers < n
            /\ timers' = timers + 1
            /\ progress_value' = 0
    /\ invocations' = <<>>
    /\ raised' = "none"
    /\ stdout' = ""
    /\ covered' = FALSE
    /\ regrown' = FALSE
    /\ UNCHANGED <<layer_preprocessed, layer_cell_mask, accumulated_mask,
                   point_selection_enabled, is_erase_mode, erase_radius,
                   erase_btn_enabled, mouse_drag_callbacks>>
    /\ UNCHANGED <<layer_image, layer_skeleton, is_preprocessing, block_size_slider,
                   c_value_slider, kernel_slider, iter_slider, result_length>>
    /\ UNCHANGED <<thinVars, closeVars, exportVars>>

MeasureClick == MeasureClickUpTo(MaxTimers)

\* What measure_cell(self.accumulated_mask) does with the array the widget
\* holds when the timer fires: None has no copy(), and the shape of an
\* H x W x 3 array does not unpack into rows, cols (measurement.py:87, 102).
measure_raises(acc) ==
    IF acc.ndim = 0 THEN "AttributeError"
    ELSE IF acc.ndim # 2 THEN "ValueError"
    ELSE "none"

\* update_progress (widget.py:778-805), one timeout of a running timer.
TimerTick ==
    /\ timers > 0
    /\ IF progress_value < ProgressFull
       THEN /\ progress_value' = progress_value + ProgressStep
            /\ raised' = "none"
            /\ UNCHANGED <<timers, layer_skeleton, result_length, accumulated_mask>>
       ELSE /\ timers' = timers - 1
            /\ UNCHANGED progress_value
            /\ raised' = measure_raises(accumulated_mask)
            /\ IF measure_raises(accumulated_mask) = "none"
               THEN LET m == measure_cell(accumulated_mask.a)
                    IN  /\ layer_skeleton' = Array2(m.skeleton)
                        /\ result_length' = m.length
               ELSE UNCHANGED <<layer_skeleton, result_length>>
            /\ accumulated_mask' =
                 IF measure_raises(accumulated_mask) = "none"
                 THEN [accumulated_mask EXCEPT
                          !.a = measure_cell_argument(accumulated_mask.a)]
                 ELSE accumulated_mask
    /\ invocations' = <<>>
    /\ stdout' = ""
    /\ covered' = FALSE
    /\ regrown' = FALSE
    /\ UNCHANGED <<layer_preprocessed, layer_cell_mask,
                   point_selection_enabled, is_erase_mode, erase_radius,
                   erase_btn_enabled, mouse_drag_callbacks>>
    /\ UNCHANGED <<layer_image, is_preprocessing, block_size_slider,
                   c_value_slider, kernel_slider, iter_slider>>
    /\ UNCHANGED <<thinVars, closeVars, exportVars>>

WidgetInit == (\E img \in Photographs : Constructed(img)) /\ NoExport

\* Loading, preprocessing, tracing, growing and measuring.  The parameter
\* that is moved is C, between its initial value and the next.
WidgetNext ==
    \/ \E img \in Photographs : LoadImage(img)
    \/ PreprocessClick
    \/ \E v \in CValueInit..(CValueInit + 1) : SliderChanged("c_value", v)
    \/ TraceClick
    \/ \E y \in ClickRows(layer_image), x \in ClickCols(layer_image) : MouseClick(y, x)
    \/ MeasureClick
    \/ TimerTick

SpecWidget == WidgetInit /\ [][WidgetNext]_vars

\* C8: when the measurement of a timer runs on an accumulated mask that is
\* all background, nothing is raised, the skeleton shown is an all-background
\* H x W array of the mask's height and width, and the length shown is 0.
C8_EmptyMaskMeasuresToZero ==
    [][(/\ TimerTick
        /\ progress_value >= ProgressFull
        /\ accumulated_mask.ndim # 0
        /\ Fg(accumulated_mask.a) = {})
       => /\ raised' = "none"
          /\ layer_skeleton' = Array2(zeros_like(accumulated_mask.a))
          /\ result_length'.den > 0
          /\ result_length'.num = 0
      ]_vars

\* C11: starting tracing makes the accumulated mask all background; loading
\* an image (a change of index or difficulty) makes it None and disables point
\* selection; so the accumulated mask never holds a pixel that is not a cell
\* pixel of the image now loaded.
C11_MaskLifecycle ==
    [][/\ (TraceClick /\ ~point_selection_enabled)
            => /\ point_selection_enabled'
               /\ accumulated_mask'.ndim # 0
               /\ Fg(accumulated_mask'.a) = {}
       /\ \A img \in Photographs :
            LoadImage(img)
            => /\ accumulated_mask' = NoArray
               /\ ~point_selection_enabled'
       /\ accumulated_mask'.ndim # 0
            => Fg(accumulated_mask'.a) \subseteq Fg(layer_image'.a)
      ]_vars

\* Tracing is on for the second time with an all-background accumulated mask
\* while the Cell Mask layer still shows what the first session grew.
C11_Witness ==
    /\ point_selection_enabled
    /\ mouse_drag_callbacks = 2
    /\ accumulated_mask.ndim = 2
    /\ Fg(accumulated_mask.a) = {}
    /\ layer_cell_mask.ndim = 2
    /\ Fg(layer_cell_mask.a) # {}

\* C12: the accumulated mask, the Cell Mask layer and the skeleton, when they
\* exist, are 2-d arrays of the height and width of the loaded image.
C12_MasksHaveImageShape ==
    \A m \in {accumulated_mask, layer_cell_mask, layer_skeleton} :
        m.ndim # 0 => /\ m.ndim = 2
                      /\ shape(m.a) = shape(layer_image.a)

\* C13: a grow click on a foreground seed that an erase has removed from the
\* accumulated mask (with whatever else of its component the disk covered)
\* puts the whole 4-connected component of the seed back: after the click the
\* mask holds every pixel of the component, and what it held before.
C13_EraseRegrowRestoresComponent ==
    [][\A s \in SourceFg(layer_preprocessed) :
          (/\ point_selection_enabled
           /\ ~is_erase_mode
           /\ accumulated_mask.ndim = 2
           /\ s \notin Fg(accumulated_mask.a)
           /\ MouseClick(s[1] - 1, s[2] - 1))
          => /\ raised' = "none"
             /\ Component4(SourceFg(layer_preprocessed), s) \subseteq Fg(accumulated_mask'.a)
             /\ Fg(accumulated_mask.a) \subseteq Fg(accumulated_mask'.a)
      ]_vars

\* The step just taken grew again a component of three pixels that a
\* small eraser had cut: the mask holds all of it.
C13_Witness ==
    /\ regrown
    /\ raised = "none"
    /\ erase_radius <= MaxRadius
    /\ \E s \in SourceFg(layer_preprocessed) :
         /\ Cardinality(Component4(SourceFg(layer_preprocessed), s)) >= 3
         /\ Component4(SourceFg(layer_preprocessed), s) \subseteq Fg(accumulated_mask.a)

(***************************************************************************)
(* C14: thinning only removes pixels: the foreground after a subiteration  *)
(* is a subset of the foreground before it, the pixel count never grows,   *)
(* and the skeleton returned has no pixel outside the input mask.          *)
(***************************************************************************)
C14_ThinningOnlyRemoves ==
    [][/\ (FirstSubiteration \/ SecondSubiteration)
            => /\ Fg(image') \subseteq Fg(image)
               /\ count_nonzero(image') <= count_nonzero(image)
               /\ Fg(image') \subseteq Fg(cell_mask)
       /\ ThinningReturn
            => /\ Fg(skeleton') \subseteq Fg(cell_mask)
               /\ count_nonzero(skeleton') <= count_nonzero(cell_mask)
      ]_vars

\* A skeleton has been returned that kept some pixels of the mask and lost
\* others.
C14_Witness ==
    /\ thin_pc = "returned"
    /\ Fg(skeleton) # {}
    /\ Fg(skeleton) # Fg(cell_mask)

(***************************************************************************)
(* morphological_thinning on every mask of a small array, whatever its     *)
(* number of foreground pixels: most of the array is border.               *)
(***************************************************************************)
BorderInit ==
    /\ cell_mask = zeros(BorderRows, BorderCols)
    /\ image = zeros(BorderRows, BorderCols)
    /\ prev = zeros(BorderRows, BorderCols)
    /\ thin_pc = "input"
    /\ skeleton = zeros(BorderRows, BorderCols)
    /\ length = NoLength
    /\ passes = 0
    /\ deleted = 0
    /\ zero_pass = 0
    /\ NoWidget
    /\ NoClosing
    /\ NoExport

\* The caller's binary mask (0/255): any mask, each built once, pixel after
\* pixel in row-major order.
SetAnyPixel ==
    /\ thin_pc = "input"
    /\ \E p \in Pixels(cell_mask) :
         /\ \A q \in Pixels(cell_mask) :
               cell_mask[q[1]][q[2]] # 0
                 => (q[1] - 1) * BorderCols + q[2] < (p[1] - 1) * BorderCols + p[2]
         /\ cell_mask' = [cell_mask EXCEPT ![p[1]][p[2]] = 255]
    /\ UNCHANGED <<image, prev, thin_pc, skeleton, length, passes, deleted, zero_pass>>
    /\ UNCHANGED <<traceVars, widgetVars, closeVars, exportVars>>

BorderNext ==
    \/ SetAnyPixel
    \/ ThinningEnter
    \/ FirstSubiteration
    \/ SecondSubiteration
    \/ LoopCheck
    \/ ThinningReturn
    \/ MeasureCellReturn

SpecBorder == BorderInit /\ [][BorderNext]_vars

\* The top-left pixels of the 2x2 blocks of foreground pixels of an array.
Blocks2x2(a) ==
    {p \in Fg(a) : {<<p[1], p[2] + 1>>, <<p[1] + 1, p[2]>>, <<p[1] + 1, p[2] + 1>>}
                      \subseteq Fg(a)}

(***************************************************************************)
(* C15: the skeleton morphological_thinning returns is one pixel wide: it  *)
(* holds no 2x2 block of four foreground pixels, for every input mask,     *)
(* those touching the first or last row or column included.                *)
(***************************************************************************)
C15_SkeletonOnePixelWide ==
    thin_pc = "returned" => Blocks2x2(skeleton) = {}

(***************************************************************************)
(* measure_cell on all-foreground rectangles.                              *)
(***************************************************************************)
\* An h x w block of 255 with m rows and columns of 0 on every side.
Rectangle(h, w, m) ==
    [x \in 1..(h + 2 * m) |-> [y \in 1..(w + 2 * m) |->
        IF m < x /\ x <= m + h /\ m < y /\ y <= m + w THEN 255 ELSE 0]]

RectInit ==
    /\ \E h \in 1..RectHeight, w \in {RectWidth - 1, RectWidth}, m \in 0..RectMargin :
         /\ cell_mask = Rectangle(h, w, m)
         /\ image = zeros(h + 2 * m, w + 2 * m)
         /\ prev = zeros(h + 2 * m, w + 2 * m)
         /\ skeleton = zeros(h + 2 * m, w + 2 * m)
    /\ thin_pc = "input"
    /\ length = NoLength
    /\ passes = 0
    /\ deleted = 0
    /\ zero_pass = 0
    /\ NoWidget
    /\ NoClosing
    /\ NoExport

RectNext ==
    \/ ThinningEnter
    \/ FirstSubiteration
    \/ SecondSubiteration
    \/ LoopCheck
    \/ ThinningReturn
    \/ MeasureCellReturn

SpecRect == RectInit /\ [][RectNext]_vars

\* The most foreground pixels a column of the array holds.
ColumnFg(a, y) == Cardinality({x \in 1..Len(a) : a[x][y] # 0})

(***************************************************************************)
(* C16: thinning the 5 x 100 all-foreground rectangle gives a horizontal   *)
(* line one pixel tall (no column holds more than one foreground pixel) of *)
(* about 100 foreground pixels, and not more than 100.                     *)
(***************************************************************************)
C16_RectangleThinsToLine ==
    (/\ thin_pc = "measured"
     /\ \E m \in 0..RectMargin : cell_mask = Rectangle(RectHeight, RectWidth, m))
    => /\ \A y \in 1..shape(skeleton)[2] : ColumnFg(skeleton, y) <= 1
       /\ count_nonzero(skeleton) <= RectWidth
       /\ count_nonzero(skeleton) >= RectWidth - RectSlack
       /\ pixel_count(cell_mask, skeleton) * CalibrationDen = length.num

(***************************************************************************)
(* The candidate rule of the two subiterations, stated on the compass      *)
(* neighbours of a pixel p = <<row, column>> of a 0/1 array.               *)
(***************************************************************************)
North(a, p) == a[p[1] - 1][p[2]]
NorthEast(a, p) == a[p[1] - 1][p[2] + 1]
East(a, p) == a[p[1]][p[2] + 1]
SouthEast(a, p) == a[p[1] + 1][p[2] + 1]
South(a, p) == a[p[1] + 1][p[2]]
SouthWest(a, p) == a[p[1] + 1][p[2] - 1]
West(a, p) == a[p[1]][p[2] - 1]
NorthWest(a, p) == a[p[1] - 1][p[2] - 1]

\* The neighbours clockwise from north.
Clockwise(a, p) ==
    <<North(a, p), NorthEast(a, p), East(a, p), SouthEast(a, p),
      South(a, p), SouthWest(a, p), West(a, p), NorthWest(a, p)>>

\* B(p): the number of foreground neighbours.
B(a, p) == Cardinality({i \in 1..8 : Clockwise(a, p)[i] # 0})

\* A(p): the number of 0 -> 1 steps around the neighbours, the step from
\* north-west back to north included.
A(a, p) ==
    Cardinality({i \in 1..8 : /\ Clockwise(a, p)[i] = 0
                              /\ Clockwise(a, p)[(i % 8) + 1] = 1})

\* The pixels that have all eight neighbours inside the array.
Interior(a) ==
    {p \in Pixels(a) : /\ 1 < p[1] /\ p[1] < shape(a)[1]
                       /\ 1 < p[2] /\ p[2] < shape(a)[2]}

ReferenceCandidates(a, k) ==
    {p \in Interior(a) :
        /\ a[p[1]][p[2]] # 0
        /\ 2 <= B(a, p) /\ B(a, p) <= 6
        /\ A(a, p) = 1
        /\ IF k = 1
           THEN /\ North(a, p) * East(a, p) * South(a, p) = 0
                /\ East(a, p) * South(a, p) * West(a, p) = 0
           ELSE /\ North(a, p) * East(a, p) * West(a, p) = 0
                /\ North(a, p) * South(a, p) * West(a, p) = 0}

(***************************************************************************)
(* C17: a subiteration clears exactly the reference candidates of the      *)
(* array it started on (interior foreground pixels with 2 <= B <= 6,       *)
(* A = 1 and the two products of that subiteration 0) and changes nothing  *)
(* else: no candidate's deletion is seen by the test of another pixel.     *)
(* The sets the two scans collect are the reference sets on every array    *)
(* the routine holds, whichever subiteration comes next.                   *)
(***************************************************************************)
C17_SubiterationDeletesReferenceCandidates ==
    [][/\ first_candidates(image) = ReferenceCandidates(image, 1)
       /\ second_candidates(image) = ReferenceCandidates(image, 2)
       /\ FirstSubiteration
            => /\ shape(image') = shape(image)
               /\ \A p \in Pixels(image) :
                    image'[p[1]][p[2]] =
                        IF p \in ReferenceCandidates(image, 1) THEN 0
                        ELSE image[p[1]][p[2]]
       /\ SecondSubiteration
            => /\ shape(image') = shape(image)
               /\ \A p \in Pixels(image) :
                    image'[p[1]][p[2]] =
                        IF p \in ReferenceCandidates(image, 2) THEN 0
                        ELSE image[p[1]][p[2]]
      ]_vars

\* The first subiteration has just cleared two or more pixels at once, each
\* a neighbour of another one cleared, and left some foreground.
C17_Witness ==
    /\ thin_pc = "sub2"
    /\ deleted >= 2
    /\ Fg(image) # {}
    /\ \E p \in Fg(cell_mask) \ Fg(image) :
         \E q \in Fg(cell_mask) \ Fg(image) : p # q /\ Adj8(p, q)

\* The foreground pixels of an array in its first or last row or column.
BorderFg(a) == Fg(a) \ Interior(a)

(***************************************************************************)
(* C18: border pixels are never deletion candidates: every foreground      *)
(* pixel of the input in the first or last row or column is foreground in  *)
(* the array after every subiteration and in the skeleton returned.        *)
(***************************************************************************)
C18_BorderPixelsKept ==
    /\ thin_pc \in {"sub1", "sub2", "check", "exit"}
         => /\ BorderFg(cell_mask) \subseteq Fg(image)
            /\ first_candidates(image) \cap BorderFg(image) = {}
            /\ second_candidates(image) \cap BorderFg(image) = {}
    /\ thin_pc \in {"returned", "measured"}
         => BorderFg(cell_mask) \subseteq Fg(skeleton)

\* A skeleton has been returned that lost an interior pixel next to a border
\* pixel of the mask.
C18_Witness ==
    /\ thin_pc = "returned"
    /\ \E q \in BorderFg(cell_mask) :
         \E p \in Fg(cell_mask) \ Fg(skeleton) : Adj8(p, q)

(***************************************************************************)
(* C19: the measurement a timer performs is made on the accumulated mask   *)
(* as it was when Measure was clicked: from the click to the tick that     *)
(* measures, no grow, erase, restart of tracing or change of image changes *)
(* the accumulated mask or makes it None.                                  *)
(***************************************************************************)
C19_MaskKeptWhileMeasurePending ==
    [][timers > 0
       => /\ accumulated_mask' = accumulated_mask
          /\ accumulated_mask.ndim # 0
      ]_vars

C21_CellMaskShowsAccumulated ==
    (layer_cell_mask.ndim # 0 /\ accumulated_mask.ndim # 0)
        => layer_cell_mask = accumulated_mask

(***************************************************************************)
(* Tracing sessions: loading, preprocessing, starting and stopping the     *)
(* tracing, the Esc shortcut, the erase button and clicks.                 *)
(***************************************************************************)
\* QShortcut(QKeySequence('Esc'), self, self._disable_point_selection)
\* (widget.py:857, 670-687): self.mouse_callback is None, nothing is removed.
EscapePressed ==
    /\ point_selection_enabled' = FALSE
    /\ raised' = "none"
    /\ stdout' = ""
    /\ covered' = FALSE
    /\ regrown' = FALSE
    /\ UNCHANGED <<layer_preprocessed, layer_cell_mask, accumulated_mask,
                   is_erase_mode, erase_radius, erase_btn_enabled,
                   mouse_drag_callbacks>>
    /\ UNCHANGED <<thinVars, widgetVars, closeVars, exportVars>>

SessionNext ==
    \/ \E img \in Photographs : LoadImage(img)
    \/ PreprocessClick
    \/ \E v \in CValueInit..(CValueInit + 1) : SliderChanged("c_value", v)
    \/ TraceClick
    \/ EscapePressed
    \/ ToggleEraseMode
    \/ \E y \in ClickRows(layer_image), x \in ClickCols(layer_image) : MouseClick(y, x)

SpecSession == WidgetInit /\ [][SessionNext]_vars

(***************************************************************************)
(* C22: erase mode is on only while point selection is enabled: whatever   *)
(* ends tracing (Stop Tracing, Esc, a change of image or difficulty) turns *)
(* erase mode off, so the first click of a new session grows a region.     *)
(***************************************************************************)
C22_EraseModeOnlyWhileTracing ==
    is_erase_mode => point_selection_enabled

(***************************************************************************)
(* C23: the viewer's mouse-drag callbacks hold at most one registration of *)
(* the click handler, and none while point selection is disabled: each     *)
(* registration made at a start of tracing is removed when point selection *)
(* is disabled.                                                            *)
(***************************************************************************)
C23_OneClickRegistration ==
    /\ mouse_drag_callbacks <= 1
    /\ ~point_selection_enabled => mouse_drag_callbacks = 0

(***************************************************************************)
(* Measuring on one image: starting and stopping the tracing, overlapping  *)
(* Measure requests and their timers.  A running QTimer keeps firing.      *)
(***************************************************************************)
MeasureNext ==
    \/ TraceClick
    \/ MeasureClickUpTo(MaxOverlap)
    \/ TimerTick

SpecMeasure == WidgetInit /\ [][MeasureNext]_vars /\ WF_vars(TimerTick)

\* The last timer has stopped and its measurement is shown.
MeasureDone ==
    /\ timers = 0
    /\ raised = "none"
    /\ layer_skeleton.ndim # 0
    /\ result_length # NoLength

(***************************************************************************)
(* C24: every Measure request made while an accumulated mask exists        *)
(* completes (timers stopped, the measured length shown), if the timers    *)
(* keep ticking, Measure is not requested again forever and the image is   *)
(* not changed; overlapping requests included.                             *)
(***************************************************************************)
C24_MeasureCompletes ==
    \/ []<><<MeasureClickUpTo(MaxOverlap)>>_vars
    \/ (timers > 0) ~> MeasureDone

(***************************************************************************)
(* C25: thinning is idempotent: thinning the skeleton that was returned    *)
(* gives that skeleton again, and the skeleton is a fixed point of a full  *)
(* pass (subiteration 1, then subiteration 2); also when the loop was left *)
(* on its first pass with an all-background array.                         *)
(***************************************************************************)
C25_ThinningIdempotent ==
    thin_pc = "returned" =>
        /\ morphological_thinning(skeleton) = skeleton
        /\ LET binary == floordiv(skeleton, 255)
           IN  second_subiteration(first_subiteration(binary)) = binary

\* A skeleton has been returned after a pass that deleted pixels and left
\* others.
C25_Witness ==
    /\ thin_pc = "returned"
    /\ passes >= 2
    /\ Fg(skeleton) # {}
    /\ Cardinality(Fg(skeleton)) < Cardinality(Fg(cell_mask))

(***************************************************************************)
(* The gap-closing loop of initial_preprocessing (measurement.py:34-39).   *)
(* cv2.morphologyEx(src, cv2.MORPH_CLOSE, kernel) is cv2.dilate followed   *)
(* by cv2.erode with the same kernel; the kernel np.ones((k, k)) is        *)
(* anchored at its centre, and with the default border value pixels        *)
(* outside the array take no part in the maximum or the minimum.           *)
(***************************************************************************)
Max(S) == CHOOSE m \in S : \A v \in S : v <= m
Min(S) == CHOOSE m \in S : \A v \in S : m <= v

\* The pixels of the array under the kernel centred at (x, y).
kernel_window(img, x, y, k) ==
    {p \in Pixels(img) : /\ p[1] - x >= -(k \div 2) /\ p[1] - x <= (k - 1) \div 2
                         /\ p[2] - y >= -(k \div 2) /\ p[2] - y <= (k - 1) \div 2}

\* cv2.dilate(img, kernel)
dilate(img, k) ==
    [x \in 1..Len(img) |-> [y \in 1..Len(img[x]) |->
        Max({img[p[1]][p[2]] : p \in kernel_window(img, x, y, k)})]]

\* A mutant of erode: the minimum is taken under a kernel two pixels larger.
erode_wider(img, k) ==
    [x \in 1..Len(img) |-> [y \in 1..Len(img[x]) |->
        Min({img[p[1]][p[2]] : p \in kernel_window(img, x, y, k + 2)})]]

\* cv2.erode(img, kernel)
erode(img, k) ==
    [x \in 1..Len(img) |-> [y \in 1..Len(img[x]) |->
        Min({img[p[1]][p[2]] : p \in kernel_window(img, x, y, k)})]]

\* cv2.morphologyEx(img, cv2.MORPH_CLOSE, kernel)
morphology_close(img, k) == erode(dilate(img, k), k)

\* The odd kernel sizes the loop is run with.
KernelSizes == {k \in KernelMin..CloseMaxKernel : k % 2 = 1}

ClosingInit ==
    /\ preprocessing = [pc |-> "input", adaptive_thresh |-> zeros(CloseRows, CloseCols),
                        adaptive_thresh_copy |-> <<>>, closing |-> <<>>,
                        kernel_size |-> 0, iterations |-> 0, i |-> 0]
    /\ ThinIdle
    /\ NoWidget
    /\ NoExport

\* The output of cv2.adaptiveThreshold: any binary mask (0/255) of at most
\* CloseMaxFg foreground pixels, each built once in row-major order.
SetThresholdPixel ==
    /\ preprocessing.pc = "input"
    /\ count_nonzero(preprocessing.adaptive_thresh) < CloseMaxFg
    /\ \E p \in Pixels(preprocessing.adaptive_thresh) :
         /\ \A q \in Pixels(preprocessing.adaptive_thresh) :
               preprocessing.adaptive_thresh[q[1]][q[2]] # 0
                 => (q[1] - 1) * CloseCols + q[2] < (p[1] - 1) * CloseCols + p[2]
         /\ preprocessing' = [preprocessing EXCEPT !.adaptive_thresh[p[1]][p[2]] = 255]
    /\ UNCHANGED <<thinVars, traceVars, widgetVars, exportVars>>

\* adaptive_thresh_copy = adaptive_thresh.copy(); kernel = np.ones(...)
ClosingEnter(k, n) ==
    /\ preprocessing.pc = "input"
    /\ preprocessing' = [preprocessing EXCEPT
                            !.adaptive_thresh_copy = preprocessing.adaptive_thresh,
                            !.kernel_size = k,
                            !.iterations = n,
                            !.i = 0,
                            !.pc = "loop"]
    /\ UNCHANGED <<thinVars, traceVars, widgetVars, exportVars>>

\* closing = cv2.morphologyEx(adaptive_thresh_copy, cv2.MORPH_CLOSE, kernel)
\* adaptive_thresh_copy = closing
ClosingIteration ==
    /\ preprocessing.pc = "loop"
    /\ preprocessing.i < preprocessing.iterations
    /\ LET closed == morphology_close(preprocessing.adaptive_thresh_copy,
                                      preprocessing.kernel_size)
       IN  preprocessing' = [preprocessing EXCEPT
                               !.closing = closed,
                               !.adaptive_thresh_copy = closed,
                               !.i = preprocessing.i + 1]
    /\ UNCHANGED <<thinVars, traceVars, widgetVars, exportVars>>

\* stages = {'Preprocessed Image': closing.astype(np.uint8)}; return stages
ClosingReturn ==
    /\ preprocessing.pc = "loop"
    /\ preprocessing.i = preprocessing.iterations
    /\ preprocessing' = [preprocessing EXCEPT !.pc = "returned"]
    /\ UNCHANGED <<thinVars, traceVars, widgetVars, exportVars>>

ClosingNext ==
    \/ SetThresholdPixel
    \/ \E k \in KernelSizes, n \in 1..CloseMaxIterations : ClosingEnter(k, n)
    \/ ClosingIteration
    \/ ClosingReturn

SpecClosing == ClosingInit /\ [][ClosingNext]_vars

NoImageId == -1

\* data_manager.get_current_image_id (data_handling.py:141-165): None past
\* the last image of the folder.
get_current_image_id(index) ==
    IF index >= ExportImages THEN NoImageId ELSE index

\* The photograph data_manager.load_image gives for the index-th image.
Dataset(index) ==
    Array2([x \in 1..ImgRows |-> [y \in 1..ImgCols |->
              IF x = 1 /\ y = (index % ImgCols) + 1 THEN 255 ELSE 0]])

\* float(self.result_label.text().split(":")[1].strip().replace("mm", "")) of
\* the label f"Measured Cell Length: {length:.2f}mm": the length rounded to
\* hundredths, in hundredths.
measured_length(r) == (200 * r.num + r.den) \div (2 * r.den)

\* measurement_data (widget.py:528-533)
measurement_data(id, r) ==
    [imageId |-> id, difficulty |-> "easy", measured_length |-> measured_length(r)]

\* A mutant of updated_measurements: the entry is always appended.
appended_measurements(measurements, data) == Append(measurements, data)

\* The loop over the loaded list (widget.py:541-549): the first entry of the
\* image is replaced, and the data is appended when there is none.
updated_measurements(measurements, data) ==
    LET found == {i \in 1..Len(measurements) : measurements[i].imageId = data.imageId}
    IN  IF found # {}
        THEN [measurements EXCEPT ![Min(found)] = data]
        ELSE Append(measurements, data)

\* _on_export_click (widget.py:494-560)
ExportClick ==
    /\ IF layer_skeleton.ndim = 0 \/ result_length = NoLength
       THEN /\ export_status' = "Please measure the cell length first"
            /\ UNCHANGED <<measurements_file, updated>>
       ELSE LET current_image_id == get_current_image_id(image_spin)
                data == measurement_data(current_image_id, result_length)
            IN  IF current_image_id = NoImageId
                THEN /\ export_status' = "Error: Could not determine current image ID"
                     /\ UNCHANGED <<measurements_file, updated>>
                ELSE /\ measurements_file' =
                          [exists |-> TRUE,
                           measurements |->
                               IF measurements_file.exists
                               THEN updated_measurements(measurements_file.measurements, data)
                               ELSE <<data>>]
                     /\ updated' =
                          /\ measurements_file.exists
                          /\ \E i \in 1..Len(measurements_file.measurements) :
                                measurements_file.measurements[i].imageId = current_image_id
                     /\ export_status' = "Exported data"
    /\ invocations' = <<>>
    /\ raised' = "none"
    /\ stdout' = ""
    /\ covered' = FALSE
    /\ regrown' = FALSE
    /\ UNCHANGED image_spin
    /\ UNCHANGED <<layer_preprocessed, layer_cell_mask, accumulated_mask,
                   point_selection_enabled, is_erase_mode, erase_radius,
                   erase_btn_enabled, mouse_drag_callbacks>>
    /\ UNCHANGED <<layer_image, layer_skeleton, is_preprocessing, block_size_slider,
                   c_value_slider, kernel_slider, iter_slider, timers, progress_value,
                   result_length>>
    /\ UNCHANGED <<thinVars, closeVars>>

\* _on_image_index_changed (widget.py:622-627): the spin box moved to index.
ImageIndexChanged(index) ==
    /\ index # image_spin
    /\ image_spin' = index
    /\ load_current_image(Dataset(index))
    /\ UNCHANGED <<measurements_file, export_status, updated>>

\* The measurements files an export may find: none, or a list holding the
\* entry of an image of another folder.
InitialFiles ==
    {NoFile,
     [exists |-> TRUE,
      measurements |-> <<[imageId |-> ExportImages, difficulty |-> "hard",
                          measured_length |-> 0]>>]}

ExportInit ==
    /\ Constructed(Dataset(0))
    /\ measurements_file \in InitialFiles
    /\ image_spin = 0
    /\ export_status = ""
    /\ updated = FALSE

\* Clicks are made on the cell of the image shown, and the parameter that is
\* moved is C, to the value next to its initial one.
ExportNext ==
    \/ \E index \in 0..(ExportImages - 1) : ImageIndexChanged(index)
    \/ PreprocessClick
    \/ SliderChanged("c_value", CValueInit + 1)
    \/ TraceClick
    \/ MouseClick(0, image_spin % ImgCols)
    \/ MeasureClick
    \/ TimerTick
    \/ ExportClick

SpecExport == ExportInit /\ [][ExportNext]_vars

\* At most one entry per imageId.
OneEntryPerImage(measurements) ==
    \A i, j \in 1..Len(measurements) :
        measurements[i].imageId = measurements[j].imageId => i = j

(***************************************************************************)
(* C27: the measurements list always holds at most one entry per imageId.  *)
(* An export without a Cell Skeleton layer or with an empty result label   *)
(* leaves the file as it was; any other export leaves every entry of       *)
(* another image as and where it was, and either puts the new measurement  *)
(* in the place of the image's entry or, when the image has none, appends  *)
(* it as the one new entry.                                                *)
(***************************************************************************)
C27_ExportKeepsOneEntryPerImage ==
    /\ [](measurements_file.exists => OneEntryPerImage(measurements_file.measurements))
    /\ [][ExportClick =>
            LET old == measurements_file.measurements
                new == measurements_file'.measurements
                data == measurement_data(image_spin, result_length)
                held == {i \in 1..Len(old) : old[i].imageId = image_spin}
            IN  IF layer_skeleton.ndim = 0 \/ result_length = NoLength
                THEN measurements_file' = measurements_file
                ELSE /\ measurements_file'.exists
                     /\ \A i \in (1..Len(old)) \ held : new[i] = old[i]
                     /\ IF held # {}
                        THEN /\ Len(new) = Len(old)
                             /\ \A i \in held : new[i] = data
                        ELSE /\ Len(new) = Len(old) + 1
                             /\ new[Len(new)] = data
         ]_vars

\* An export has put a non-zero length in the place of the shown image's
\* entry, which is followed by the entry of another image.
C27_Witness ==
    /\ updated
    /\ export_status = "Exported data"
    /\ Len(measurements_file.measurements) >= 3
    /\ measurements_file.measurements[2].imageId = image_spin
    /\ measurements_file.measurements[2].measured_length > 0

====
